---- MODULE Spec2Model ----
(***************************************************************************)
(* Model of banking/klarna_kosma_integration/exception_handler.py:         *)
(* the ExceptionHandler classifier (handle_error and its chain of          *)
(* handle_* rules, get_msg, set_in_account) and the whitelisted            *)
(* handle_ui_error entry point.                                            *)
(*                                                                         *)
(* Python values are tagged records: None, Str(s), List(items), Dict(f).   *)
(* A Dict carries a function from its present keys to their values, so a   *)
(* missing key and a key holding None are different things, as in Python.  *)
(***************************************************************************)
EXTENDS Integers, Sequences, FiniteSets, TLC

VARIABLES pc, exception, account, handling, lang, content, outcome, events, db_committed, db_txn, ui_args

vars == <<pc, exception, account, handling, lang, content, outcome, events, db_committed, db_txn, ui_args>>

(***************************************************************************)
(* Bounds of the model.                                                    *)
(***************************************************************************)
\* longest error_data.errors list drawn as input
MaxErrors == 2
\* most steps (calls of set_in_account, request writes, rollbacks) of the setter specification
MaxSetterSteps == 4

(***************************************************************************)
(* Python values.                                                          *)
(***************************************************************************)
None == [t |-> "None"]

Str(s) == [t |-> "str", s |-> s]

List(items) == [t |-> "list", items |-> items]

Dict(f) == [t |-> "dict", f |-> f]

NoKeys == [k \in {} |-> None]

EmptyDict == Dict(NoKeys)

\* marks a key left out when an input dict is built; never a Python value
Absent == [t |-> "absent"]

Opt(k, v) == IF v = Absent THEN NoKeys ELSE (k :> v)

IsDict(v) == v.t = "dict"

IsStr(v) == v.t = "str"

\* Python truthiness (bool(v)) of the values used here
Truthy(v) ==
    CASE v.t = "None" -> FALSE
      [] v.t = "str" -> v.s # ""
      [] v.t = "list" -> Len(v.items) > 0
      [] v.t = "dict" -> DOMAIN v.f # {}
      [] OTHER -> TRUE

\* dict.get(key, default); the caller has checked IsDict(d)
Get(d, k, default) == IF k \in DOMAIN d.f THEN d.f[k] ELSE default

\* a or b
Or(a, b) == IF Truthy(a) THEN a ELSE b

\* str(v) as an f-string renders it
Format(v) == IF v.t = "str" THEN v.s ELSE IF v.t = "None" THEN "None" ELSE "<object>"

\* "sub in s" on Python strings
In(sub, s) == \E i \in 1..(Len(s) - Len(sub) + 1) : SubSeq(s, i, i + Len(sub) - 1) = sub

(***************************************************************************)
(* frappe._ : the translation of the session language if one exists, the   *)
(* message itself otherwise.                                               *)
(***************************************************************************)
Languages == {"en", "de"}

Translations ==
    [de |-> ("Something went wrong. Please retry in a while." :> "Etwas ist schiefgelaufen. Bitte versuchen Sie es erneut.")
         @@ ("Authentication error due to invalid credentials." :> "Authentifizierungsfehler: ungueltige Zugangsdaten.")
         @@ ("The server has errored. Please retry in some time." :> "Serverfehler. Bitte spaeter erneut versuchen.")
         @@ ("Banking Action has failed due to the following error(s):" :> "Die Banking-Aktion ist fehlgeschlagen:")
         @@ ("Please go to Banking Settings and click on {0}." :> "Bitte in den Banking-Einstellungen auf {0} klicken.")
         @@ ("Link Bank and Accounts" :> "Bank und Konten verknuepfen")
         @@ ("Not permitted" :> "Nicht zulaessig"),
     en |-> [k \in {} |-> ""]]

\* frappe._(msg)
Translate(msg) == IF msg \in DOMAIN Translations[lang] THEN Translations[lang][msg] ELSE msg

\* template.format(arg) for a template holding one {0}
FormatTemplate(template, arg) ==
    LET i == CHOOSE j \in 1..Len(template) : SubSeq(template, j, j + 2) = "{0}"
    IN SubSeq(template, 1, i - 1) \o arg \o SubSeq(template, i + 3, Len(template))

\* frappe.bold
bold(text) == "<strong>" \o text \o "</strong>"

(***************************************************************************)
(* Inputs: the failures, responses and payloads the classifier is given.   *)
(***************************************************************************)
CONSENT == "CONSENT.RESOURCE_NOT_GRANTED"

\* one entry of error_data.errors: {location, message, code}, any key may be missing
ErrItem(location, message, code) == Dict(Opt("location", location) @@ Opt("message", message) @@ Opt("code", code))

ErrItems ==
    { ErrItem(Str("A"), Str("m1"), Absent),
      ErrItem(Str("B"), Str("m2"), Str(CONSENT)),
      ErrItem(Absent, Str("m1"), Absent),
      ErrItem(Str("A"), Absent, Absent),
      ErrItem(Str("B"), Absent, Str(CONSENT)),
      Str("not an object") }

ErrLists == UNION { [1..n -> ErrItems] : n \in 1..MaxErrors }

\* error_data: {errors, message, code}
ErrorData(errors, message, code) == Dict(Opt("errors", errors) @@ Opt("message", message) @@ Opt("code", code))

ErrorDatas ==
    { ErrorData(List(l), m, Absent) : l \in ErrLists, m \in {Absent, Str("top message")} }
    \cup { ErrorData(e, m, c) : e \in {Absent, None, List(<<>>)},
                               m \in {Absent, None, Str(""), Str("consent missing")},
                               c \in {Absent, Str(CONSENT)} }
    \cup { ErrorData(Str("not a list"), Absent, Absent) }

\* the vendor envelope found under the body's `message` key: {error, data}
Envelope(error, data) == Dict(Opt("error", error) @@ Opt("data", data))

Envelopes ==
    { Envelope(e, d) : e \in {Absent, None, Str("not an object")} \cup ErrorDatas,
                       d \in {Absent, None, ErrorData(Absent, Str("data message"), Absent),
                              ErrorData(List(<<ErrItem(Str("D"), Str("m3"), Absent)>>), Absent, Absent)} }

\* the values of the body's `message` key
Messages == {Absent, None, Str(""), Str("Not permitted"), Str("Custom text")} \cup Envelopes

\* a JSON object body: {message, exc_type, exception}
Body(message, exc_type, exc) == Dict(Opt("message", message) @@ Opt("exc_type", exc_type) @@ Opt("exception", exc))

JsonObjects ==
    { Body(m, t, e) : m \in Messages, t \in {Absent, Str("SomeError")}, e \in {Absent, Str("boom")} }

\* response.content: the raw body, which parses to a JSON value or does not
Raw(valid, v) == [t |-> "bytes", valid |-> valid, json |-> v]

NotJson == Raw(FALSE, None)

\* the bodies tried with every status and Content-Type
FewBodies ==
    { NotJson, Raw(TRUE, List(<<>>)), Raw(TRUE, EmptyDict) }
    \cup { Raw(TRUE, Body(m, Absent, Absent)) : m \in {None, Str("Not permitted"), Str("Custom text"), EmptyDict, List(<<>>)} }

ContentTypes == {Absent, Str("application/json"), Str("application/json; charset=utf-8"), Str("text/html")}

Response(status_code, content_type, body) == [status_code |-> status_code, headers |-> Dict(Opt("Content-Type", content_type)), content |-> body]

Responses ==
    { Response(s, c, b) : s \in {401, 403, 500}, c \in ContentTypes, b \in FewBodies }
    \cup { Response(500, Str("application/json"), Raw(TRUE, b)) : b \in JsonObjects }

\* the failure handed to the classifier; `http` is isinstance(e, HTTPError)
Failure(http, response) == [id |-> "e1", http |-> http, response |-> response]

NoResponse == Response(0, Absent, NotJson)

Failures == { Failure(FALSE, NoResponse) } \cup { Failure(TRUE, r) : r \in Responses }

Accounts == {None, Str(""), Str("ACC-0001")}

\* the exception the interpreter is handling when the classifier is called
\* (sys.exc_info): the failure passed in, another one, or none
Handlings == {"e1", "e2", "none"}

(***************************************************************************)
(* Effects.  A world is the database and the ordered record of what the    *)
(* running call has done so far (log entries, parses, writes, commits,     *)
(* collaborator calls, the raise).                                         *)
(***************************************************************************)
World == [committed |-> db_committed, txn |-> db_txn, events |-> events]

Emit(w, op, arg) == [w EXCEPT !.events = Append(@, [op |-> op, arg |-> arg])]

\* frappe.log_error(title="Banking Error", message=message)
log_error(w, message) == Emit(w, "log_error", message)

\* frappe.db.set_value("Bank Account", account, "error_message", error):
\* a write inside the open transaction
db_set_value(w, error) == Emit([w EXCEPT !.txn = error], "set_value", error)

\* frappe.db.commit(): the open transaction becomes the committed state
db_commit(w) == Emit([w EXCEPT !.committed = w.txn], "commit", None)

\* frappe.db.rollback(): the open transaction is dropped
db_rollback(w) == Emit([w EXCEPT !.txn = w.committed], "rollback", None)

\* variant of set_in_account: the write is left in the open transaction
set_in_account_nocommit(w, error) == IF ~Truthy(account) THEN w ELSE db_set_value(w, error)

\* ExceptionHandler.set_in_account
set_in_account(w, error) == IF ~Truthy(account) THEN w ELSE db_commit(db_set_value(w, error))

\* json.dumps(v): the text of v
json_dumps(v) == [t |-> "json text", of |-> v]

Running == [kind |-> "none", type |-> "", obj |-> "", msg |-> None]

Returned == [kind |-> "return", type |-> "", obj |-> "", msg |-> None]

Raised(type, obj, msg) == [kind |-> "raise", type |-> type, obj |-> obj, msg |-> msg]

Store(w) == db_committed' = w.committed /\ db_txn' = w.txn /\ events' = w.events

\* the rule did not match: handle_error goes on to its next statement
Continue(w, next) == pc' = next /\ outcome' = outcome /\ Store(w)

\* the call ends without raising
Return(w) == pc' = "done" /\ outcome' = Returned /\ Store(w)

\* variant of Raise: the error is reported but handle_error goes on with `rest`
Raise_and_go_on(w, type, obj, msg, rest) == pc' = rest /\ outcome' = Raised(type, obj, msg) /\ Store(Emit(w, "raise", Str(type)))

\* an exception leaves the rule and handle_error: the rest of the chain is skipped
Raise(w, type, obj, msg, rest) == pc' = "done" /\ outcome' = Raised(type, obj, msg) /\ Store(Emit(w, "raise", Str(type)))

\* frappe.throw(title="Banking Error", msg=msg, exc=BankingError)
throw(w, msg, rest) == Raise(w, "BankingError", "new", msg, rest)

\* a bare `raise`: the exception being handled, RuntimeError if there is none
bare_raise(w, rest) ==
    IF handling = "none"
    THEN Raise(w, "RuntimeError", "new", Str("No active exception to reraise"), rest)
    ELSE Raise(w, "reraised", handling, None, rest)

\* response.json(): recorded, and failing on a body that is not JSON
json(w) == Emit(w, "json", None)

(***************************************************************************)
(* The classifier.                                                         *)
(***************************************************************************)
NoFailure == [id |-> "", http |-> FALSE, response |-> NoResponse]

NoUiArgs == [error |-> None, session_id_short |-> ""]

Init ==
    /\ pc = "idle"
    /\ exception = NoFailure
    /\ account = None
    /\ handling = "none"
    /\ lang \in Languages
    /\ content = None
    /\ outcome = Running
    /\ events = <<>>
    /\ db_committed = Str("previous error")
    /\ db_txn = db_committed
    /\ ui_args = NoUiArgs

\* ExceptionHandler.__init__
Construct(e, a, h) ==
    /\ pc = "idle"
    /\ exception' = e
    /\ account' = a
    /\ handling' = h
    /\ pc' = "handle_error"
    /\ UNCHANGED <<lang, content, outcome, events, db_committed, db_txn, ui_args>>

\* handle_error up to its first call: the failure without a response
handle_error ==
    /\ pc = "handle_error"
    /\ IF ~exception.http
       THEN LET w1 == set_in_account(World, Str(Translate("Something went wrong. Please retry in a while.")))
                w2 == log_error(w1, Str("traceback"))
            IN bare_raise(w2, "handle_auth_error")
       ELSE Continue(World, "handle_auth_error")
    /\ UNCHANGED <<exception, account, handling, lang, content, ui_args>>

\* variant of handle_auth_error: the account gets the untranslated text, the raise
\* the translated one
handle_auth_error_unlocalized ==
    /\ pc = "handle_auth_error"
    /\ LET response == exception.response
       IN IF response.status_code # 401
          THEN Continue(World, "handle_authorization_error")
          ELSE LET w1 == log_error(World, response.content)
                   message == "Authentication error due to invalid credentials."
                   w2 == set_in_account(w1, Str(message))
               IN throw(w2, Str(Translate(message)), "handle_authorization_error")
    /\ UNCHANGED <<exception, account, handling, lang, content, ui_args>>

handle_auth_error ==
    /\ pc = "handle_auth_error"
    /\ LET response == exception.response
       IN IF response.status_code # 401
          THEN Continue(World, "handle_authorization_error")
          ELSE LET w1 == log_error(World, response.content)
                   message == Translate("Authentication error due to invalid credentials.")
                   w2 == set_in_account(w1, Str(message))
               IN throw(w2, Str(message), "handle_authorization_error")
    /\ UNCHANGED <<exception, account, handling, lang, content, ui_args>>

handle_authorization_error ==
    /\ pc = "handle_authorization_error"
    /\ LET response == exception.response
       IN IF response.status_code # 403
          THEN Continue(World, "handle_txt_html_error")
          ELSE LET w1 == json(log_error(World, response.content))
               IN IF ~response.content.valid
                  THEN Raise(w1, "JSONDecodeError", "new", None, "handle_txt_html_error")
                  ELSE IF ~IsDict(response.content.json)
                  THEN Raise(w1, "AttributeError", "new", None, "handle_txt_html_error")
                  ELSE LET body_message == Get(response.content.json, "message", EmptyDict)
                           message == IF IsStr(body_message) THEN body_message
                                      ELSE Str("Authorization error due to invalid access.")
                           w2 == set_in_account(w1, message)
                       IN throw(w2, Str(Translate(message.s)), "handle_txt_html_error")
    /\ UNCHANGED <<exception, account, handling, lang, content, ui_args>>

\* variant of handle_txt_html_error: nothing is logged
handle_txt_html_error_nolog ==
    /\ pc = "handle_txt_html_error"
    /\ LET response == exception.response
       IN IF In("application/json", Get(response.headers, "Content-Type", Str("")).s)
          THEN Continue(World, "get_content")
          ELSE LET message == Translate("Something went wrong. Please retry in a while.")
                   w2 == set_in_account(World, Str(message))
               IN throw(w2, Str(message), "get_content")
    /\ UNCHANGED <<exception, account, handling, lang, content, ui_args>>

handle_txt_html_error ==
    /\ pc = "handle_txt_html_error"
    /\ LET response == exception.response
       IN IF In("application/json", Get(response.headers, "Content-Type", Str("")).s)
          THEN Continue(World, "get_content")
          ELSE LET w1 == log_error(World, response.content)
                   message == Translate("Something went wrong. Please retry in a while.")
                   w2 == set_in_account(w1, Str(message))
               IN throw(w2, Str(message), "get_content")
    /\ UNCHANGED <<exception, account, handling, lang, content, ui_args>>

\* handle_error: content = response.json().get("message", {})
get_content ==
    /\ pc = "get_content"
    /\ LET response == exception.response
           w1 == json(World)
       IN IF ~response.content.valid
          THEN Raise(w1, "JSONDecodeError", "new", None, "handle_frappe_server_error") /\ content' = content
          ELSE IF ~IsDict(response.content.json)
          THEN Raise(w1, "AttributeError", "new", None, "handle_frappe_server_error") /\ content' = content
          ELSE Continue(w1, "handle_frappe_server_error") /\ content' = Get(response.content.json, "message", EmptyDict)
    /\ UNCHANGED <<exception, account, handling, lang, ui_args>>

handle_frappe_server_error ==
    /\ pc = "handle_frappe_server_error"
    /\ LET response == exception.response
           w1 == json(World)
           response_data == response.content.json
       IN IF ~Truthy(content) /\ "exc_type" \in DOMAIN response_data.f
          THEN LET w2 == log_error(w1, response.content)
                   message == Or(Get(response_data, "exception", None),
                                 Str(Translate("The server has errored. Please retry in some time.")))
                   w3 == set_in_account(w2, message)
               IN throw(w3, message, "handle_admin_error")
          ELSE Continue(w1, "handle_admin_error")
    /\ UNCHANGED <<exception, account, handling, lang, content, ui_args>>

\* the result of a computation that may raise
Ok(v) == [ok |-> TRUE, type |-> "", v |-> v]

Fail(type) == [ok |-> FALSE, type |-> type, v |-> None]

\* the sentence get_msg appends
info == FormatTemplate(Translate("Please go to Banking Settings and click on {0}."), bold(Translate("Link Bank and Accounts")))

\* ExceptionHandler.get_msg; `msg += ...` on a msg that is not a string is a TypeError
get_msg(error) ==
    LET msg == Get(error, "message", None)
    IN IF Get(error, "code", None) = Str(CONSENT)
       THEN IF IsStr(msg) THEN Ok(Str(msg.s \o " " \o info)) ELSE Fail("TypeError")
       ELSE Ok(msg)

\* f"{err.get('location')} - {self.get_msg(err)}"; err.get on a non-dict is an AttributeError
error_line(err) ==
    IF ~IsDict(err) THEN Fail("AttributeError")
    ELSE LET m == get_msg(err)
         IN IF ~m.ok THEN m ELSE Ok(Format(Get(err, "location", None)) \o " - " \o Format(m.v))

\* variant of error_list: the lines come out last first
RECURSIVE error_list_reversed(_)
error_list_reversed(items) ==
    IF Len(items) = 0 THEN Ok(<<>>)
    ELSE LET first == error_line(Head(items))
         IN IF ~first.ok THEN first
            ELSE LET rest == error_list_reversed(Tail(items))
                 IN IF ~rest.ok THEN rest ELSE Ok(rest.v \o <<first.v>>)

\* [f"..." for err in errors]: the lines in the order of the list, the first failure ending it
RECURSIVE error_list(_)
error_list(items) ==
    IF Len(items) = 0 THEN Ok(<<>>)
    ELSE LET first == error_line(Head(items))
         IN IF ~first.ok THEN first
            ELSE LET rest == error_list(Tail(items))
                 IN IF ~rest.ok THEN rest ELSE Ok(<<first.v>> \o rest.v)

\* sep.join(lines)
RECURSIVE join(_, _)
join(sep, lines) ==
    IF Len(lines) = 0 THEN ""
    ELSE IF Len(lines) = 1 THEN lines[1]
    ELSE lines[1] \o sep \o join(sep, Tail(lines))

handle_admin_error ==
    /\ pc = "handle_admin_error"
    /\ IF ~IsDict(content)
       THEN Raise(World, "AttributeError", "new", None, "done")
       ELSE LET error_data == Or(Get(content, "error", EmptyDict), Get(content, "data", EmptyDict))
                w1 == log_error(World, json_dumps(error_data))
            IN IF ~IsDict(error_data)
               THEN Raise(w1, "AttributeError", "new", None, "done")
               ELSE LET errors == Get(error_data, "errors", None)
                    IN IF Truthy(errors)
                       THEN IF errors.t # "list"
                            THEN Raise(w1, "AttributeError", "new", None, "done")
                            ELSE LET lines == error_list(errors.items)
                                     message == Translate("Banking Action has failed due to the following error(s):")
                                                \o "<br><ul><li>" \o join("</li><li>", lines.v) \o "</li></ul>"
                                 IN IF ~lines.ok
                                    THEN Raise(w1, lines.type, "new", None, "done")
                                    ELSE throw(set_in_account(w1, Str(message)), Str(message), "done")
                       ELSE IF Truthy(Get(error_data, "message", None))
                       THEN LET message == get_msg(error_data)
                            IN IF ~message.ok
                               THEN Raise(w1, message.type, "new", None, "done")
                               ELSE throw(set_in_account(w1, message.v), message.v, "done")
                       ELSE Return(w1)
    /\ UNCHANGED <<exception, account, handling, lang, content, ui_args>>

(***************************************************************************)
(* handle_ui_error.                                                        *)
(***************************************************************************)
\* the Klarna Kosma Session records: session_id_short -> the secret session_id
Sessions == [s1 |-> "secret-1", s2 |-> "secret-2"]

SessionIds == {"s1", "s2", "s9"}

\* the `error` argument: None, "", or a non-empty text that parses or does not
UiErrors ==
    { None, Str(""), NotJson, Raw(TRUE, List(<<>>)), Raw(TRUE, EmptyDict),
      Raw(TRUE, Dict([message |-> Str("user closed the dialog")])) }

\* if error: error = json.loads(error); frappe.log_error(message=error.get("message"))
log_ui_error(w, error) ==
    IF ~Truthy(error) THEN Ok(w)
    ELSE IF ~error.valid THEN Fail("JSONDecodeError")
    ELSE IF ~IsDict(error.json) THEN Fail("AttributeError")
    ELSE Ok(log_error(w, Get(error.json, "message", None)))

handle_ui_error(error, session_id_short) ==
    /\ pc = "idle"
    /\ ui_args' = [error |-> error, session_id_short |-> session_id_short]
    /\ LET logged == log_ui_error(World, error)
       IN IF ~logged.ok
          THEN Raise(World, logged.type, "new", None, "done")
          ELSE LET w1 == Emit(logged.v, "get_doc", Str(session_id_short))
               IN IF session_id_short \notin DOMAIN Sessions
                  THEN Raise(w1, "DoesNotExistError", "new", None, "done")
                  ELSE LET session_id == Sessions[session_id_short]
                           w2 == Emit(w1, "get_password", Str("session_id"))
                           w3 == Emit(w2, "end_session", [session_id |-> session_id, session_id_short |-> session_id_short])
                       IN Return(w3)
    /\ UNCHANGED <<exception, account, handling, lang, content>>

Next ==
    \/ pc = "idle" /\ \E e \in Failures, a \in Accounts, h \in Handlings : Construct(e, a, h)
    \/ handle_error
    \/ handle_auth_error
    \/ handle_authorization_error
    \/ handle_txt_html_error
    \/ get_content
    \/ handle_frappe_server_error
    \/ handle_admin_error
    \/ pc = "idle" /\ \E error \in UiErrors, s \in SessionIds : handle_ui_error(error, s)

Spec == Init /\ [][Next]_vars

(***************************************************************************)
(* The account-message setter on its own: calls of set_in_account on one   *)
(* account, inside a request that also makes uncommitted writes of its own *)
(* and may roll back.                                                      *)
(***************************************************************************)
SetterMessages == {Str("first error"), Str("second error")}

SetterSteps == Cardinality({ i \in 1..Len(events) : events[i].op \in {"set_in_account", "request_write", "rollback"} })

InitSetter ==
    /\ pc = "constructed"
    /\ exception = NoFailure
    /\ account \in Accounts
    /\ handling = "none"
    /\ lang \in Languages
    /\ content = None
    /\ outcome = Returned
    /\ events = <<>>
    /\ db_committed = Str("previous error")
    /\ db_txn = db_committed
    /\ ui_args = NoUiArgs

\* a call self.set_in_account(error)
set_in_account_call(error) ==
    /\ pc = "constructed"
    /\ SetterSteps < MaxSetterSteps
    /\ Store(set_in_account(Emit(World, "set_in_account", error), error))
    /\ UNCHANGED <<pc, exception, account, handling, lang, content, outcome, ui_args>>

\* the surrounding request changes the field inside its open transaction
request_write(v) ==
    /\ pc = "constructed"
    /\ SetterSteps < MaxSetterSteps
    /\ Store(Emit([World EXCEPT !.txn = v], "request_write", v))
    /\ UNCHANGED <<pc, exception, account, handling, lang, content, outcome, ui_args>>

\* the surrounding request fails and is rolled back
request_rollback ==
    /\ pc = "constructed"
    /\ SetterSteps < MaxSetterSteps
    /\ Store(db_rollback(World))
    /\ UNCHANGED <<pc, exception, account, handling, lang, content, outcome, ui_args>>

NextSetter ==
    \/ \E error \in SetterMessages : set_in_account_call(error)
    \/ request_write(Str("unsaved edit"))
    \/ request_rollback

SpecSetter == InitSetter /\ [][NextSetter]_vars

(***************************************************************************)
(* Vocabulary of the properties.                                           *)
(***************************************************************************)
\* the classifier has been called, and has ended
Classified == exception.id = "e1"

ClassifiedDone == Classified /\ pc = "done"

UiDone == ui_args.session_id_short # "" /\ pc = "done"

Positions(op) == { i \in 1..Len(events) : events[i].op = op }

Count(op) == Cardinality(Positions(op))

\* some `first` event comes before every `second` event, and there is a `first`
Precedes(first, second) == Positions(first) # {} /\ \A j \in Positions(second) : \E i \in Positions(first) : i < j

DomainError == outcome.kind = "raise" /\ outcome.type = "BankingError"

Status == exception.response.status_code

JsonContentType == exception.response.headers \in {Dict([k \in {"Content-Type"} |-> Str("application/json")]), Dict([k \in {"Content-Type"} |-> Str("application/json; charset=utf-8")])}

BodyIsObject == exception.response.content.valid /\ exception.response.content.json.t = "dict"

BodyJson == exception.response.content.json

\* the fixed strings, in the session language
GenericText == IF lang = "de" THEN "Etwas ist schiefgelaufen. Bitte versuchen Sie es erneut." ELSE "Something went wrong. Please retry in a while."

CredentialsText == IF lang = "de" THEN "Authentifizierungsfehler: ungueltige Zugangsdaten." ELSE "Authentication error due to invalid credentials."

AccessText == "Authorization error due to invalid access."

LeadInText == IF lang = "de" THEN "Die Banking-Aktion ist fehlgeschlagen:" ELSE "Banking Action has failed due to the following error(s):"

InstructionText == IF lang = "de" THEN "Bitte in den Banking-Einstellungen auf <strong>Bank und Konten verknuepfen</strong> klicken." ELSE "Please go to Banking Settings and click on <strong>Link Bank and Accounts</strong>."

\* the account's message was written and committed as `text` before the raise
AccountSetTo(text) ==
    /\ db_committed = text
    /\ Count("set_value") = 1
    /\ \A i \in Positions("set_value") : events[i].arg = text
    /\ Precedes("set_value", "raise")
    /\ Precedes("commit", "raise")

(***************************************************************************)
(* Properties.                                                             *)
(***************************************************************************)
\* C1: in every call of the classifier at most one exception is raised, hence at
\* most one Domain Error, and the raise is the last thing the call does: once a
\* rule has raised the call has ended, and no log entry, parse, write or commit
\* follows the raise.
C1_ShortCircuit ==
    Classified =>
        /\ Count("raise") <= 1
        /\ \A i \in Positions("raise") : i = Len(events) /\ pc = "done" /\ outcome.kind = "raise"
        /\ outcome.kind = "raise" => Count("raise") = 1

\* C1 witness: a 401 without a JSON Content-Type, which the 401 rule and the
\* content-type rule both match, has ended with the one Domain Error of the 401 rule.
C1_Witness ==
    /\ ClassifiedDone /\ exception.http /\ Status = 401 /\ ~JsonContentType
    /\ DomainError /\ outcome.msg = Str(CredentialsText)
    /\ Count("raise") = 1 /\ Count("log_error") = 1

\* C2: for every failure without an HTTP response the classifier re-raises the very
\* object it was given (never a Domain Error, never another exception), the
\* account's error_message having been set to the generic retry message before.
C2_ReraisesPassedFailure ==
    (ClassifiedDone /\ ~exception.http) =>
        /\ outcome = Raised("reraised", exception.id, None)
        /\ Truthy(account) => AccountSetTo(Str(GenericText))

\* C3: for every HTTP failure with status 401, whatever its body and Content-Type,
\* the classifier raises a Domain Error whose message is the fixed invalid-credentials
\* string, having set that string on the account; the body is never parsed, and the
\* call logs once and does nothing of the later rules.
C3_Unauthorized ==
    (ClassifiedDone /\ exception.http /\ Status = 401) =>
        /\ outcome = Raised("BankingError", "new", Str(CredentialsText))
        /\ Truthy(account) => AccountSetTo(Str(CredentialsText))
        /\ ~Truthy(account) => Count("set_value") = 0
        /\ Count("json") = 0
        /\ Count("log_error") = 1 /\ events[1] = [op |-> "log_error", arg |-> exception.response.content]

\* C3 witness: a 401 whose body is not JSON and whose Content-Type is text/html has
\* ended with the account set.
C3_Witness ==
    /\ ClassifiedDone /\ exception.http /\ Status = 401
    /\ ~exception.response.content.valid /\ ~JsonContentType
    /\ Truthy(account) /\ lang = "de"
    /\ DomainError /\ db_committed = Str(CredentialsText)

\* the message the 403 rule is said to use: the body's `message` when it is a plain
\* string, the fixed invalid-access string in every other case
C4_Message ==
    IF BodyIsObject /\ "message" \in DOMAIN BodyJson.f /\ BodyJson.f["message"].t = "str"
    THEN BodyJson.f["message"]
    ELSE Str(AccessText)

\* C4: for every HTTP failure with status 403 the classifier raises a Domain Error
\* whose message is the body's `message` field when that is a plain string and the
\* fixed invalid-access string in every other case, the account's message having
\* been set to the same text before the raise.
C4_Forbidden ==
    (ClassifiedDone /\ exception.http /\ Status = 403) =>
        /\ outcome = Raised("BankingError", "new", C4_Message)
        /\ Truthy(account) => AccountSetTo(C4_Message)

\* d.get(k): None when the key is missing
Field(d, k) == IF k \in DOMAIN d.f THEN d.f[k] ELSE None

\* a status other than 401/403, a JSON Content-Type and a body that is a JSON object
VendorResponse == ClassifiedDone /\ exception.http /\ Status \notin {401, 403} /\ JsonContentType /\ BodyIsObject

\* the body's `message` is an object: the vendor envelope
HasEnvelope == "message" \in DOMAIN BodyJson.f /\ BodyJson.f["message"].t = "dict"

\* error_data: the envelope's `error` if it holds something, else its `data`
C5_ErrorData ==
    LET env == BodyJson.f["message"]
    IN IF Truthy(Field(env, "error")) THEN Field(env, "error") ELSE Field(env, "data")

\* an item the line format is defined on: an object, with a string message if it
\* carries the consent code
C5_ItemOk(item) == item.t = "dict" /\ (Field(item, "code") = Str(CONSENT) => Field(item, "message").t = "str")

C5_Text(v) == IF v.t = "str" THEN v.s ELSE "None"

\* "{location} - {augmented message}"
C5_Line(item) ==
    C5_Text(Field(item, "location")) \o " - "
    \o (IF Field(item, "code") = Str(CONSENT) THEN Field(item, "message").s \o " " \o InstructionText ELSE C5_Text(Field(item, "message")))

RECURSIVE C5_ListItems(_)
C5_ListItems(items) == IF Len(items) = 0 THEN "" ELSE "<li>" \o C5_Line(Head(items)) \o "</li>" \o C5_ListItems(Tail(items))

C5_Case ==
    /\ VendorResponse /\ HasEnvelope
    /\ C5_ErrorData.t = "dict"
    /\ Field(C5_ErrorData, "errors").t = "list"
    /\ Len(Field(C5_ErrorData, "errors").items) > 0
    /\ \A i \in 1..Len(Field(C5_ErrorData, "errors").items) : C5_ItemOk(Field(C5_ErrorData, "errors").items[i])

C5_Expected == Str(LeadInText \o "<br><ul>" \o C5_ListItems(Field(C5_ErrorData, "errors").items) \o "</ul>")

C6_NoCrashOnShape == VendorResponse => (DomainError \/ outcome.kind = "return")

\* C8: handle_ui_error logs nothing for an absent or empty payload; logs the
\* `message` field of a non-empty payload once, before the session lookup; and
\* calls the session termination exactly once, after the lookup, with the session's
\* secret session_id and session_id_short, unless the lookup fails, in which case
\* the failure reaches the caller and the termination is never called.
C8_UiAcknowledgment ==
    UiDone =>
        /\ ~Truthy(ui_args.error) => Count("log_error") = 0
        /\ Truthy(ui_args.error) => Count("log_error") = 1 /\ Precedes("log_error", "get_doc")
        /\ Count("get_doc") = 1
        /\ ui_args.session_id_short \in DOMAIN Sessions =>
              /\ Count("end_session") = 1
              /\ Precedes("get_doc", "end_session")
              /\ \A i \in Positions("end_session") :
                    events[i].arg = [session_id |-> Sessions[ui_args.session_id_short], session_id_short |-> ui_args.session_id_short]
              /\ outcome.kind = "return"
        /\ ui_args.session_id_short \notin DOMAIN Sessions =>
              /\ Count("end_session") = 0
              /\ outcome.kind = "raise" /\ outcome.type = "DoesNotExistError"

\* C9: every call of the classifier that ends by re-raising (step 1) or by raising
\* a Domain Error (steps 2-6) has emitted a log entry before the raise.
C9_LogBeforeRaise ==
    (Classified /\ outcome.kind = "raise" /\ (~exception.http \/ outcome.type = "BankingError")) =>
        Precedes("log_error", "raise")

\* C9 witness: a 500 with Content-Type text/html has ended with the Domain Error of
\* the content-type rule.
C9_Witness ==
    /\ ClassifiedDone /\ exception.http /\ Status = 500 /\ ~JsonContentType
    /\ DomainError /\ Count("log_error") = 1 /\ Count("json") = 0

\* C10: a call of the classifier with an account that ends in a Domain Error has
\* written the account's error_message exactly once, before the raise, with the text
\* of the raised error; a call that returns normally leaves it unchanged; a call
\* without an account never writes or commits.
C10_PersistedAgreesWithRaised ==
    ClassifiedDone =>
        /\ (Truthy(account) /\ DomainError) => AccountSetTo(outcome.msg)
        /\ outcome.kind = "return" => (db_committed = Str("previous error") /\ Count("set_value") = 0)
        /\ ~Truthy(account) => (Count("set_value") = 0 /\ Count("commit") = 0 /\ db_committed = Str("previous error"))

\* the string of the last call of set_in_account
LastSet == events[CHOOSE i \in Positions("set_in_account") : \A j \in Positions("set_in_account") : j <= i].arg

\* C7: after a call of set_in_account on an account the committed error_message is
\* the string just written, with nothing of it left pending; it stays that string
\* when the request writes further and rolls back; after calls with different
\* strings it is the string of the last call.
C7_CommittedAtOnce ==
    (Truthy(account) /\ Positions("set_in_account") # {}) =>
        /\ db_committed = LastSet
        /\ events[Len(events)].op \in {"commit", "rollback"} => db_txn = db_committed

\* C7 witness: two calls with different strings, then a write of the request and
\* its rollback.
C7_Witness ==
    /\ Truthy(account) /\ Len(events) >= 8
    /\ events[1] = [op |-> "set_in_account", arg |-> Str("first error")]
    /\ events[4] = [op |-> "set_in_account", arg |-> Str("second error")]
    /\ events[7].op = "request_write" /\ events[8].op = "rollback"
    /\ db_committed = Str("second error")

====
